---- MODULE Spec2Model ----
(***************************************************************************)
(* Model of the photo booth application: App (auto-capture gate, countdown *)
(* completion, manual capture), CameraView (delivery of pose samples),     *)
(* usePoseDetection (evaluatePoseQuality), CountdownTimer and the          *)
(* usePhotoCapture hook.                                                   *)
(*                                                                         *)
(* Time.  The code compares Date.now() with two stored timestamps only by  *)
(* difference (now - lastCaptureTime.current < 5000, now -                 *)
(* poseStableTime.current > 2000).  The model stores these differences     *)
(* (ages, in ms) instead of the timestamps; an age that has passed the     *)
(* constant it is compared with is kept at the first value beyond it.      *)
(* "ref = Date.now()" is "age = 0", and the passing of d ms adds d to      *)
(* every age.  This keeps the clock unbounded and the state space finite.  *)
(*                                                                         *)
(* Scores of keypoints are in tenths (score 0.5 is 5).                     *)
(*                                                                         *)
(* Photo ids.  An id is Date.now().toString(); only equality and order of  *)
(* ids matter, so an id is kept as the rank of its clock reading among     *)
(* the readings still in use (1 for the earliest), and "now" is the rank   *)
(* of the latest reading.  Between two steps with no Advance in between    *)
(* less than TimeStep ms pass: the clock may or may not have moved on to   *)
(* the next millisecond.                                                   *)
(*                                                                         *)
(* React.  A state setter is modelled as taking effect at once; the        *)
(* callbacks of a handler are those of the latest render (CameraView calls *)
(* onPoseDetected from an effect, after the render that produced it).  The *)
(* effects that a handler's state changes set off are part of its action.  *)
(* The updater passed to setCount runs once per tick.                      *)
(*                                                                         *)
(* Event loop.  capturePhoto settles its promise inside the executor, so   *)
(* the code after "await capturePhoto" is a microtask: it runs before any  *)
(* other timer, click or pose sample, and before time moves on.            *)
(***************************************************************************)
EXTENDS Integers, Sequences, FiniteSets, TLC

\* ------------------------------------------------------------------ bounds
TimeStep == 500        \* ms that pass in one Advance step
MaxPhotos == 2         \* photos stored or under way at any time
MaxHoldCount == 2      \* cap of the per-hold counters
MaxDuration == 3       \* durations tried for a CountdownTimer on its own
MaxLen == 3            \* photos in a collection handed to getBestPhotos
MaxPixels == 3         \* pixels in a buffer handed to calculatePhotoQuality
MaxSheet == 27         \* photos in a list handed to generateLayout
MaxListLen == 2        \* photos in a list handed to a mounted LayoutGenerator
MaxListIds == 2        \* different photos in those lists
MaxRuns == 2           \* runs of generateLayout unfinished at a time

\* ------------------------------------------------------- program constants
CooldownMs == 5000     \* App: now - lastCaptureTime.current < 5000
StableMs == 2000       \* App: now - poseStableTime.current > 2000
TickMs == 1000         \* CountdownTimer: setInterval(..., 1000)
AppDuration == 3       \* App: <CountdownTimer duration={3}>
GoodPoseMin == 4       \* App: visibleFacePoints.length >= 4
EvalMin == 3           \* evaluatePoseQuality: visibleFacePoints.length >= 3
ScoreMin == 5          \* point.score > 0.5, in tenths
LevelMax == 50         \* shoulderDiff < 50
CenterLo == 200        \* nose.position.x > 200
CenterHi == 440        \* nose.position.x < 440

Mid == 128             \* Math.abs(avgBrightness - 128) / 128
EdgeFull == 20         \* normalizedEdgeStrength / 20

pageWidth == 2480      \* LayoutGenerator: const pageWidth = 2480
pageHeight == 3508     \* const pageHeight = 3508
photoWidth == 413      \* const photoWidth = 413
photoHeight == 531     \* const photoHeight = 531
margin == 60           \* const margin = 60

None == -1             \* "no value" of an age or of a timer

\* --------------------------------------------------------------- poses
faceKeypoints == {"nose", "leftEye", "rightEye", "leftEar", "rightEar"}

Kp(s, px, py) == [score |-> s, position |-> [x |-> px, y |-> py]]

\* Five visible facial landmarks, level shoulders, centered nose.
PerfectPose ==
  [keypoints |-> [p \in faceKeypoints \cup {"leftShoulder", "rightShoulder"} |->
       CASE p = "nose" -> Kp(9, 320, 200)
         [] p = "leftEye" -> Kp(9, 300, 180)
         [] p = "rightEye" -> Kp(9, 340, 180)
         [] p = "leftEar" -> Kp(8, 280, 190)
         [] p = "rightEar" -> Kp(8, 360, 190)
         [] p = "leftShoulder" -> Kp(9, 220, 330)
         [] p = "rightShoulder" -> Kp(9, 420, 340)]]

\* Four visible facial landmarks, shoulders 80 px apart in height.
TiltedPose ==
  [keypoints |-> [p \in faceKeypoints \cup {"leftShoulder", "rightShoulder"} |->
       CASE p = "nose" -> Kp(9, 320, 200)
         [] p = "leftEye" -> Kp(9, 300, 180)
         [] p = "rightEye" -> Kp(9, 340, 180)
         [] p = "leftEar" -> Kp(8, 280, 190)
         [] p = "rightEar" -> Kp(3, 360, 190)
         [] p = "leftShoulder" -> Kp(9, 220, 300)
         [] p = "rightShoulder" -> Kp(9, 420, 380)]]

\* Two visible facial landmarks, no shoulders reported.
HiddenPose ==
  [keypoints |-> [p \in faceKeypoints |->
       CASE p = "nose" -> Kp(9, 100, 200)
         [] p = "leftEye" -> Kp(7, 80, 180)
         [] p = "rightEye" -> Kp(4, 120, 180)
         [] p = "leftEar" -> Kp(2, 60, 190)
         [] p = "rightEar" -> Kp(1, 140, 190)]]

\* The poses the pose source delivers, by name; "none" is the null pose.
PoseNames == {"perfect", "tilted", "hidden"}

PoseOf(n) ==
  CASE n = "perfect" -> PerfectPose
    [] n = "tilted" -> TiltedPose
    [] n = "hidden" -> HiddenPose

\* keypoints.find(kp => kp.part === pointName) succeeded
Has(pose, part) == part \in DOMAIN pose.keypoints

\* the filter with point.score >= 0.5
visibleFacePointsAtLeast(pose) ==
  {p \in faceKeypoints : Has(pose, p) /\ pose.keypoints[p].score >= ScoreMin}

\* faceKeypoints.filter(name => point && point.score > 0.5)
visibleFacePoints(pose) ==
  {p \in faceKeypoints : Has(pose, p) /\ pose.keypoints[p].score > ScoreMin}

\* a test that asks for all five facial landmarks
isGoodPoseAll(pose) ==
  Cardinality(visibleFacePoints(pose)) >= Cardinality(faceKeypoints)

\* App's own test of a pose
isGoodPose(pose) == Cardinality(visibleFacePoints(pose)) >= GoodPoseMin

Abs(n) == IF n < 0 THEN -n ELSE n

\* evaluatePoseQuality with the centering message ahead of the shoulder one
evaluatePoseQualityCenterFirst(pose) ==
  LET visible == Cardinality(visibleFacePoints(pose))
      required == Cardinality(faceKeypoints)
      body == Has(pose, "leftShoulder") /\ Has(pose, "rightShoulder") /\ Has(pose, "nose")
      shoulderDiff == Abs(pose.keypoints["leftShoulder"].position.y
                          - pose.keypoints["rightShoulder"].position.y)
      isLevel == shoulderDiff < LevelMax
      isCentered == pose.keypoints["nose"].position.x > CenterLo
                    /\ pose.keypoints["nose"].position.x < CenterHi
      confident == 10 * visible > 7 * required
      verdict(c, m) == [isCorrect |-> c, confNum |-> visible,
                        confDen |-> required, message |-> m]
  IN  IF visible >= EvalMin
      THEN IF body
           THEN IF isLevel /\ isCentered /\ confident
                THEN verdict(TRUE, "Perfect pose! Stay still...")
                ELSE IF ~isCentered
                THEN verdict(FALSE, "Center yourself in the frame")
                ELSE IF ~isLevel
                THEN verdict(FALSE, "Keep your shoulders level")
                ELSE verdict(FALSE, "Almost there, stay still")
           ELSE verdict(FALSE, "Position yourself in the frame")
      ELSE [isCorrect |-> FALSE, confNum |-> 0, confDen |-> required,
            message |-> "Position yourself in the frame"]

\* usePoseDetection.evaluatePoseQuality.  confidence is visible/5; it is
\* kept as the pair of numerator and denominator.
evaluatePoseQuality(pose) ==
  LET visible == Cardinality(visibleFacePoints(pose))
      required == Cardinality(faceKeypoints)
      body == Has(pose, "leftShoulder") /\ Has(pose, "rightShoulder") /\ Has(pose, "nose")
      shoulderDiff == Abs(pose.keypoints["leftShoulder"].position.y
                          - pose.keypoints["rightShoulder"].position.y)
      isLevel == shoulderDiff < LevelMax
      isCentered == pose.keypoints["nose"].position.x > CenterLo
                    /\ pose.keypoints["nose"].position.x < CenterHi
      confident == 10 * visible > 7 * required
  IN  IF visible >= EvalMin
      THEN IF body
           THEN IF isLevel /\ isCentered /\ confident
                THEN [isCorrect |-> TRUE, confNum |-> visible, confDen |-> required,
                      message |-> "Perfect pose! Stay still..."]
                ELSE IF ~isLevel
                THEN [isCorrect |-> FALSE, confNum |-> visible, confDen |-> required,
                      message |-> "Keep your shoulders level"]
                ELSE IF ~isCentered
                THEN [isCorrect |-> FALSE, confNum |-> visible, confDen |-> required,
                      message |-> "Center yourself in the frame"]
                ELSE [isCorrect |-> FALSE, confNum |-> visible, confDen |-> required,
                      message |-> "Almost there, stay still"]
           ELSE [isCorrect |-> FALSE, confNum |-> visible, confDen |-> required,
                 message |-> "Position yourself in the frame"]
      ELSE [isCorrect |-> FALSE, confNum |-> 0, confDen |-> required,
            message |-> "Position yourself in the frame"]

\* ------------------------------------------------------ frames and scores
\* A pixel is <<r, g, b>> (the alpha byte is never read).  A frame is what
\* drawImage leaves on the canvas: width, height and width * height pixels.
Black == <<0, 0, 0>>
Gray == <<128, 128, 128>>
White == <<255, 255, 255>>
Red == <<255, 0, 0>>

Frame(w, h, px) == [width |-> w, height |-> h, pixels |-> px]

\* Numbers that need not be integers are fractions num/den of integers;
\* a fraction with den = 0 arises only as 0/0, which is NaN.
Frac(n, d) == [num |-> n, den |-> d]
IsNaN(q) == q.den = 0
FracAdd(a, b) == Frac(a.num * b.den + b.num * a.den, a.den * b.den)
FracHalf(a) == Frac(a.num, 2 * a.den)
\* a <= b and a = b as the program's numbers compare (false with a NaN)
FracLeq(a, b) == ~IsNaN(a) /\ ~IsNaN(b) /\ a.num * b.den <= b.num * a.den
FracEq(a, b) == ~IsNaN(a) /\ ~IsNaN(b) /\ a.num * b.den = b.num * a.den

Min(a, b) == IF a <= b THEN a ELSE b

\* a getImageData that hands out an empty buffer for an empty canvas
getImageDataEmpty(frame) == [threw |-> FALSE, data |-> frame.pixels]

\* ctx.getImageData(0, 0, canvas.width, canvas.height): an IndexSizeError
\* when the width or the height is 0, else 4 bytes per pixel
getImageData(frame) ==
  IF frame.width = 0 \/ frame.height = 0
  THEN [threw |-> TRUE, data |-> <<>>]
  ELSE [threw |-> FALSE, data |-> frame.pixels]

\* r + g + b of a pixel: 3 times its brightness (r + g + b) / 3
Sum3(px) == px[1] + px[2] + px[3]

\* totalBrightness after the loop, times 3
RECURSIVE totalBrightness(_)
totalBrightness(data) ==
  IF data = <<>> THEN 0 ELSE Sum3(Head(data)) + totalBrightness(Tail(data))

\* edgeStrength after the loop, times 3: every pixel but the last one is
\* compared with the next one of the buffer
RECURSIVE edgeStrength(_)
edgeStrength(data) ==
  IF Len(data) < 2 THEN 0
  ELSE Abs(Sum3(data[1]) - Sum3(data[2])) + edgeStrength(Tail(data))

\* a brightness score that falls to 0 at 255 as it does at 0:
\* 1 - Math.abs(avgBrightness - 127.5) / 127.5
brightnessScoreSymmetric(data) ==
  LET n == Len(data)
  IN  Frac(765 * n - Abs(2 * totalBrightness(data) - 765 * n), 765 * n)

\* 1 - Math.abs(avgBrightness - 128) / 128 with
\* avgBrightness = totalBrightness / (data.length / 4)
brightnessScore(data) ==
  LET n == Len(data)
  IN  Frac(3 * Mid * n - Abs(totalBrightness(data) - 3 * Mid * n), 3 * Mid * n)

\* the sharpness without Math.min
sharpnessScoreNoMin(data) ==
  LET n == Len(data)
  IN  Frac(edgeStrength(data), 3 * EdgeFull * n)

\* Math.min(normalizedEdgeStrength / 20, 1) with
\* normalizedEdgeStrength = edgeStrength / (data.length / 4)
sharpnessScore(data) ==
  LET n == Len(data)
  IN  Frac(Min(edgeStrength(data), 3 * EdgeFull * n), 3 * EdgeFull * n)

\* calculatePhotoQuality returning the sum of the two scores
calculatePhotoQualitySum(frame) ==
  LET imageData == getImageData(frame)
      data == imageData.data
  IN  [threw |-> imageData.threw,
       brightnessScore |-> brightnessScore(data),
       sharpnessScore |-> sharpnessScore(data),
       qualityScore |-> FracAdd(brightnessScore(data), sharpnessScore(data))]

\* usePhotoCapture.calculatePhotoQuality; the two partial scores are
\* reported next to the result
calculatePhotoQuality(frame) ==
  LET imageData == getImageData(frame)
      data == imageData.data
  IN  [threw |-> imageData.threw,
       brightnessScore |-> brightnessScore(data),
       sharpnessScore |-> sharpnessScore(data),
       qualityScore |-> FracHalf(FracAdd(brightnessScore(data),
                                         sharpnessScore(data)))]

NoPhoto == [id |-> None, qualityScore |-> Frac(0, 1)]

\* usePhotoCapture.capturePhoto: the executor of its promise, with the
\* frame the video shows and the reading of Date.now() it would take
capturePhoto(frame, id) ==
  LET q == calculatePhotoQuality(frame)
  IN  IF q.threw
      THEN [settled |-> "reject", photo |-> NoPhoto]
      ELSE [settled |-> "resolve",
            photo |-> [id |-> id, qualityScore |-> q.qualityScore]]

\* What the camera shows when a photo is taken: a frame of two pixels, or
\* nothing at all (a video without dimensions).
LiveFrames == {Frame(2, 1, <<Gray, White>>), Frame(0, 0, <<>>)}

\* ------------------------------------------------------------------ state
VARIABLES
  \* App
  currentVideo,        \* TRUE when the video element is set (non-null)
  isCountdownActive,
  autoCapture,
  activeTab,
  lastCaptureAge,      \* Date.now() - lastCaptureTime.current
  poseStableAge,       \* Date.now() - poseStableTime.current
  wasCorrectPose,
  \* usePhotoCapture
  capturedPhotos,
  isCapturing,
  now,                 \* Date.now() when it was last read for a photo id
  \* CameraView / usePoseDetection
  currentPose,         \* name of the latest pose sample, "none" when null
  \* CountdownTimer
  duration,
  count,
  timerLeft,           \* ms until the interval fires next, None without interval
  \* event loop: continuations of the awaits of capturePhoto, in order
  microtasks,
  \* observers (history only; no action reads them to decide anything)
  obs,
  \* a function of the program taken on its own: its argument and result
  arg,
  result,
  \* LayoutGenerator: its props, canvas, state and unfinished runs
  layout

appVars == <<currentVideo, isCountdownActive, autoCapture, activeTab,
             lastCaptureAge, poseStableAge, wasCorrectPose>>
program == <<currentVideo, isCountdownActive, autoCapture, activeTab,
             lastCaptureAge, poseStableAge, wasCorrectPose, capturedPhotos,
             isCapturing, currentPose, duration, count, timerLeft, microtasks,
             obs, now>>
vars == <<currentVideo, isCountdownActive, autoCapture, activeTab,
          lastCaptureAge, poseStableAge, wasCorrectPose, capturedPhotos,
          isCapturing, currentPose, duration, count, timerLeft, microtasks, obs,
          now, arg, result, layout>>

\* An age after d more ms; kept at cap once it has reached cap.
Aged(age, d, cap) ==
  IF age = None THEN None ELSE IF age + d >= cap THEN cap ELSE age + d

Bump(n) == IF n >= MaxHoldCount THEN MaxHoldCount ELSE n + 1

\* The part of App's state that handlePoseDetected reads and writes.
Gate ==
  [autoCapture |-> autoCapture, currentVideo |-> currentVideo,
   isCapturing |-> isCapturing, isCountdownActive |-> isCountdownActive,
   lastCaptureAge |-> lastCaptureAge, poseStableAge |-> poseStableAge,
   wasCorrectPose |-> wasCorrectPose, outcome |-> "none"]

\* The dependencies of useCallback(handlePoseDetected)
Deps(a) == <<a.autoCapture, a.currentVideo, a.isCapturing, a.isCountdownActive>>

\* App.startCountdown
startCountdown(a) == [a EXCEPT !.isCountdownActive = TRUE]

\* handlePoseDetected without the isCapturing and isCountdownActive tests
handlePoseDetectedBusy(a, pose) ==
  IF ~a.autoCapture \/ ~a.currentVideo
  THEN [a EXCEPT !.outcome = "ignored"]
  ELSE IF a.lastCaptureAge < CooldownMs
  THEN [a EXCEPT !.outcome = "cooldown"]
  ELSE IF isGoodPose(pose)
  THEN IF ~a.wasCorrectPose
       THEN [a EXCEPT !.poseStableAge = 0, !.wasCorrectPose = TRUE,
                      !.outcome = "stabilizing"]
       ELSE IF a.poseStableAge > StableMs
       THEN [startCountdown(a) EXCEPT !.wasCorrectPose = FALSE,
                                      !.outcome = "trigger"]
       ELSE [a EXCEPT !.outcome = "waiting"]
  ELSE [a EXCEPT !.wasCorrectPose = FALSE, !.outcome = "reset"]

\* handlePoseDetected with >= 2000 in place of > 2000
handlePoseDetectedAtLeast(a, pose) ==
  IF ~a.autoCapture \/ ~a.currentVideo \/ a.isCapturing \/ a.isCountdownActive
  THEN [a EXCEPT !.outcome = "ignored"]
  ELSE IF a.lastCaptureAge < CooldownMs
  THEN [a EXCEPT !.outcome = "cooldown"]
  ELSE IF isGoodPose(pose)
  THEN IF ~a.wasCorrectPose
       THEN [a EXCEPT !.poseStableAge = 0, !.wasCorrectPose = TRUE,
                      !.outcome = "stabilizing"]
       ELSE IF a.poseStableAge >= StableMs
       THEN [startCountdown(a) EXCEPT !.wasCorrectPose = FALSE,
                                      !.outcome = "trigger"]
       ELSE [a EXCEPT !.outcome = "waiting"]
  ELSE [a EXCEPT !.wasCorrectPose = FALSE, !.outcome = "reset"]

\* handlePoseDetected whose else branch leaves wasCorrectPose alone
handlePoseDetectedKeep(a, pose) ==
  IF ~a.autoCapture \/ ~a.currentVideo \/ a.isCapturing \/ a.isCountdownActive
  THEN [a EXCEPT !.outcome = "ignored"]
  ELSE IF a.lastCaptureAge < CooldownMs
  THEN [a EXCEPT !.outcome = "cooldown"]
  ELSE IF isGoodPose(pose)
  THEN IF ~a.wasCorrectPose
       THEN [a EXCEPT !.poseStableAge = 0, !.wasCorrectPose = TRUE,
                      !.outcome = "stabilizing"]
       ELSE IF a.poseStableAge > StableMs
       THEN [startCountdown(a) EXCEPT !.wasCorrectPose = FALSE,
                                      !.outcome = "trigger"]
       ELSE [a EXCEPT !.outcome = "waiting"]
  ELSE [a EXCEPT !.outcome = "reset"]

\* handlePoseDetected that leaves wasCorrectPose set after startCountdown
handlePoseDetectedNoIdle(a, pose) ==
  IF ~a.autoCapture \/ ~a.currentVideo \/ a.isCapturing \/ a.isCountdownActive
  THEN [a EXCEPT !.outcome = "ignored"]
  ELSE IF a.lastCaptureAge < CooldownMs
  THEN [a EXCEPT !.outcome = "cooldown"]
  ELSE IF isGoodPose(pose)
  THEN IF ~a.wasCorrectPose
       THEN [a EXCEPT !.poseStableAge = 0, !.wasCorrectPose = TRUE,
                      !.outcome = "stabilizing"]
       ELSE IF a.poseStableAge > StableMs
       THEN [startCountdown(a) EXCEPT !.outcome = "trigger"]
       ELSE [a EXCEPT !.outcome = "waiting"]
  ELSE [a EXCEPT !.wasCorrectPose = FALSE, !.outcome = "reset"]

\* App.handlePoseDetected on gate state a; outcome tells which branch ran.
handlePoseDetected(a, pose) ==
  IF ~a.autoCapture \/ ~a.currentVideo \/ a.isCapturing \/ a.isCountdownActive
  THEN [a EXCEPT !.outcome = "ignored"]
  ELSE IF a.lastCaptureAge < CooldownMs
  THEN [a EXCEPT !.outcome = "cooldown"]
  ELSE IF isGoodPose(pose)
  THEN IF ~a.wasCorrectPose
       THEN [a EXCEPT !.poseStableAge = 0, !.wasCorrectPose = TRUE,
                      !.outcome = "stabilizing"]
       ELSE IF a.poseStableAge > StableMs
       THEN [startCountdown(a) EXCEPT !.wasCorrectPose = FALSE,
                                      !.outcome = "trigger"]
       ELSE [a EXCEPT !.outcome = "waiting"]
  ELSE [a EXCEPT !.wasCorrectPose = FALSE, !.outcome = "reset"]

\* ------------------------------------------------------------- observers
\* triggered:       the last step called startCountdown
\* sinceTrigger:    ms since the last trigger (None before the first)
\* triggerGap:      sinceTrigger as it was when the last trigger was emitted
\* runAgeAll:       ms since the first sample of the current unbroken run of
\*                  good samples handed to handlePoseDetected (None: the last
\*                  sample was not good, or there was none)
\* runAgeEval:      the same over the samples that passed both early returns
\* holdTriggersAll: triggers since the last sample that was not good
\* holdTriggers:    triggers since the last evaluated sample that was not good
\* holdWindows:     times poseStableTime was set since that sample
\* startedBusy:     some trigger was emitted by a call that began with
\*                  isCountdownActive or isCapturing set
\* ticksSeen:       interval ticks since isActive last became true
\* completions:     calls of onComplete since isActive last became true
\* cancelled:       isActive went back to false without a call of onComplete
ObsInit ==
  [triggered |-> FALSE, sinceTrigger |-> None, triggerGap |-> None,
   runAgeAll |-> None, runAgeEval |-> None,
   holdTriggersAll |-> 0, holdTriggers |-> 0, holdWindows |-> 0,
   startedBusy |-> FALSE, ticksSeen |-> 0, completions |-> 0,
   cancelled |-> FALSE, autoPhotos |-> 0]

Started(age) == IF age = None THEN 0 ELSE age

Observe(o, before, pose, outcome) ==
  LET good == isGoodPose(pose)
      evaluated == outcome \notin {"ignored", "cooldown"}
      trig == outcome = "trigger"
  IN  [o EXCEPT
        !.triggered = o.triggered \/ trig,
        !.sinceTrigger = IF trig THEN 0 ELSE o.sinceTrigger,
        !.triggerGap = IF trig THEN o.sinceTrigger ELSE o.triggerGap,
        !.runAgeAll = IF good THEN Started(o.runAgeAll) ELSE None,
        !.runAgeEval = IF ~evaluated THEN o.runAgeEval
                       ELSE IF good THEN Started(o.runAgeEval) ELSE None,
        !.holdTriggersAll = IF ~good THEN 0
                            ELSE IF trig THEN Bump(o.holdTriggersAll)
                            ELSE o.holdTriggersAll,
        !.holdTriggers = IF evaluated /\ ~good THEN 0
                         ELSE IF trig THEN Bump(o.holdTriggers)
                         ELSE o.holdTriggers,
        !.holdWindows = IF evaluated /\ ~good THEN 0
                        ELSE IF outcome = "stabilizing" THEN Bump(o.holdWindows)
                        ELSE o.holdWindows,
        !.startedBusy = o.startedBusy
                         \/ (trig /\ (before.isCountdownActive \/ before.isCapturing)),
        !.ticksSeen = IF trig THEN 0 ELSE o.ticksSeen,
        !.completions = IF trig THEN 0 ELSE o.completions,
        !.cancelled = IF trig THEN FALSE ELSE o.cancelled,
        !.autoPhotos = IF trig THEN 0 ELSE o.autoPhotos]

\* One call of onPoseDetected(pose) from CameraView's effect.
Deliver(c, pose) ==
  LET a == handlePoseDetected(c.app, pose)
  IN  [app |-> a, obs |-> Observe(c.obs, c.app, pose, a.outcome)]

\* CameraView: useEffect(() => { if (currentPose) onPoseDetected(currentPose) },
\* [currentPose, onPoseDetected]).  rendered is the gate state of the last
\* render, c the state now: the effect runs again, with the same pose, as
\* long as a dependency of handlePoseDetected has changed.
RECURSIVE Redeliver(_, _, _)
Redeliver(rendered, c, poseName) ==
  IF poseName = "none" \/ Deps(c.app) = Deps(rendered)
  THEN c
  ELSE Redeliver(c.app, Deliver(c, PoseOf(poseName)), poseName)

\* the effect without setCount(duration) when isActive is false
countdownEffectNoReset(isActive, cnt) ==
  IF ~isActive
  THEN [count |-> cnt, timerLeft |-> None]
  ELSE [count |-> cnt, timerLeft |-> TickMs]

\* CountdownTimer: the body of useEffect(..., [isActive, onComplete, duration])
\* together with the cleanup of the run before it.
countdownEffect(isActive, cnt) ==
  IF ~isActive
  THEN [count |-> duration, timerLeft |-> None]
  ELSE [count |-> cnt, timerLeft |-> TickMs]

\* the updater with prev <= 2 in place of prev <= 1
tickUpdaterEarly(prev) ==
  IF prev <= 2
  THEN [onComplete |-> TRUE, count |-> duration]
  ELSE [onComplete |-> FALSE, count |-> prev - 1]

\* CountdownTimer: the updater given to setCount by the interval callback.
tickUpdater(prev) ==
  IF prev <= 1
  THEN [onComplete |-> TRUE, count |-> duration]
  ELSE [onComplete |-> FALSE, count |-> prev - 1]

\* Writes a gate state and the observers back, after App has rendered again
\* (every render gives CountdownTimer a new onComplete, so its effect runs).
Commit(c, cnt) ==
  /\ autoCapture' = c.app.autoCapture
  /\ currentVideo' = c.app.currentVideo
  /\ isCapturing' = c.app.isCapturing
  /\ isCountdownActive' = c.app.isCountdownActive
  /\ lastCaptureAge' = c.app.lastCaptureAge
  /\ poseStableAge' = c.app.poseStableAge
  /\ wasCorrectPose' = c.app.wasCorrectPose
  /\ obs' = c.obs
  /\ count' = countdownEffect(c.app.isCountdownActive, cnt).count
  /\ timerLeft' = countdownEffect(c.app.isCountdownActive, cnt).timerLeft

\* The state a handler starts from; triggered is per step.
Start == [app |-> Gate, obs |-> [obs EXCEPT !.triggered = FALSE]]

\* No continuation is waiting: a new task (timer, event, pose sample) may run.
Idle == microtasks = <<>>

\* The ids of a collection
Ids(photos) == {photos[i].id : i \in 1..Len(photos)}

\* Date.now() at a capture: the reading of the capture before it, or, if
\* that reading is the id of a stored photo, possibly the next one
Readings == IF now \in Ids(capturedPhotos) THEN {now, now + 1} ELSE {now}

\* Date.now() once TimeStep ms have passed
Later == IF now \in Ids(capturedPhotos) THEN now + 1 ELSE now

\* Ranks in place of the readings that are still in use
Rank(t, ids) == Cardinality({u \in ids : u < t}) + 1
Renumber(photos) ==
  [i \in 1..Len(photos) |-> [photos[i] EXCEPT !.id = Rank(@, Ids(photos))]]

\* The frames a capture may meet: within the bound any frame of the camera,
\* beyond it only those that make the capture fail.
Grabs ==
  IF Len(capturedPhotos) + Len(microtasks) < MaxPhotos
  THEN LiveFrames
  ELSE {f \in LiveFrames : getImageData(f).threw}

\* capturePhoto's promise is settled by the time it is awaited: the executor
\* runs synchronously and either resolves or throws (getImageData).
Settlements == {capturePhoto(f, id) : f \in Grabs, id \in Readings}

\* handleCountdownComplete without setIsCapturing(true)
handleCountdownCompleteNoFlag(a) == [a EXCEPT !.isCountdownActive = FALSE]

\* App.handleCountdownComplete up to its await
handleCountdownComplete(a) ==
  IF a.currentVideo
  THEN [a EXCEPT !.isCountdownActive = FALSE, !.isCapturing = TRUE]
  ELSE [a EXCEPT !.isCountdownActive = FALSE]

\* App.handleManualCapture up to its await (after its early return)
handleManualCapture(a) == [a EXCEPT !.isCapturing = TRUE]

\* the continuation with lastCaptureTime set on every exit of the countdown path
afterCaptureAlways(a, t) ==
  LET a1 == IF t.path = "auto" THEN [a EXCEPT !.lastCaptureAge = 0] ELSE a
  IN  [a1 EXCEPT !.isCapturing = FALSE]

\* The rest of either handler, for the task t that was waiting:
\* try { addPhoto; lastCaptureTime (countdown path only) } finally { ... }
afterCapture(a, t) ==
  LET a1 == IF t.settled = "resolve" /\ t.path = "auto"
            THEN [a EXCEPT !.lastCaptureAge = 0]
            ELSE a
  IN  [a1 EXCEPT !.isCapturing = FALSE]

\* usePhotoCapture.addPhoto
addPhoto(photos, photo) == Append(photos, photo)

\* usePhotoCapture.removePhoto: prev.filter(p => p.id !== photoId)
removePhoto(photos, photoId) ==
  LET Keep(p) == p.id # photoId
  IN  SelectSeq(photos, Keep)

\* usePhotoCapture.clearPhotos
clearPhotos(photos) == <<>>

\* (a, b) => b.qualityScore - a.qualityScore, by its sign
compareFn(a, b) ==
  IF FracEq(a.qualityScore, b.qualityScore) THEN 0
  ELSE IF FracLeq(a.qualityScore, b.qualityScore) THEN 1 ELSE -1

\* a sort step that puts a photo in front of the photos it ties with
insertBeforeTies(sorted, p) ==
  LET k == Cardinality({i \in 1..Len(sorted) : compareFn(sorted[i], p) < 0})
  IN  SubSeq(sorted, 1, k) \o <<p>> \o SubSeq(sorted, k + 1, Len(sorted))

\* One step of Array.prototype.sort, which is stable: p goes behind the
\* photos that compareFn does not put after it.
insert(sorted, p) ==
  LET k == Cardinality({i \in 1..Len(sorted) : compareFn(sorted[i], p) <= 0})
  IN  SubSeq(sorted, 1, k) \o <<p>> \o SubSeq(sorted, k + 1, Len(sorted))

\* [...capturedPhotos].sort(compareFn)
RECURSIVE sort(_)
sort(photos) ==
  IF photos = <<>> THEN <<>>
  ELSE insert(sort(SubSeq(photos, 1, Len(photos) - 1)), photos[Len(photos)])

\* Array.prototype.slice(0, end); a negative end counts from the back
slice(s, end) ==
  IF end >= 0 THEN SubSeq(s, 1, Min(end, Len(s)))
  ELSE SubSeq(s, 1, Len(s) + end)

\* usePhotoCapture.getBestPhotos
getBestPhotos(photos, n) == slice(sort(photos), n)

\* ----------------------------------------------------------------- layout
\* LayoutGenerator.generateLayout.  Positions are in half pixels (x2 is
\* twice x): startX and startY are halves of integers.
cols == pageWidth \div (photoWidth + 60)
rows == pageHeight \div (photoHeight + 60)
totalSlots == cols * rows
startX2 == pageWidth - (cols * photoWidth + (cols - 1) * margin)
startY2 == pageHeight - (rows * photoHeight + (rows - 1) * margin)

\* Where the slot of a column and of a row begins
slotX2(col) == startX2 + 2 * col * (photoWidth + margin)
slotY2(row) == startY2 + 2 * row * (photoHeight + margin)

\* What img.onload of the photo at position index (from 0) draws
onload(photo, index) ==
  LET row == index \div cols
      col == index % cols
  IN  [photo |-> photo, row |-> row, col |-> col,
       x2 |-> slotX2(col), y2 |-> slotY2(row)]

\* the promises without the slice
photoPromisesAll(photos) ==
  [i \in 1..Len(photos) |-> onload(photos[i], i - 1)]

\* photos.slice(0, totalSlots).map(...): one drawing per promise
photoPromises(photos) ==
  [i \in 1..Len(slice(photos, totalSlots)) |-> onload(photos[i], i - 1)]

\* vertical guides on the left edge of the slots
guidesX2AtEdge == [i \in 1..(cols - 1) |-> startX2 + 2 * i * (photoWidth + margin)]

\* The cutting guides: vertical ones by x, horizontal ones by y
guidesX2 == [i \in 1..(cols - 1) |-> startX2 + 2 * i * (photoWidth + margin) - margin]
guidesY2 == [i \in 1..(rows - 1) |-> startY2 + 2 * i * (photoHeight + margin) - margin]

\* generateLayout run to its end on a mounted canvas with every image
\* loaded: what is on the canvas and whether setLayoutDataUrl was reached
generateLayout(photos) ==
  IF Len(photos) = 0
  THEN [drawn |-> <<>>, guidesX2 |-> <<>>, guidesY2 |-> <<>>, artifact |-> FALSE]
  ELSE [drawn |-> photoPromises(photos), guidesX2 |-> guidesX2,
        guidesY2 |-> guidesY2, artifact |-> TRUE]

\* A canvas after fillRect: no slot shows a photo (0)
Blank == [s \in 1..totalSlots |-> 0]

NoCanvas == [mounted |-> FALSE, slots |-> Blank]
NoArtifact == [made |-> FALSE, via |-> "none", slots |-> Blank]

\* LayoutGenerator before App shows the layout tab
NoLayout ==
  [mounted |-> FALSE, photos |-> <<>>, canvas |-> NoCanvas,
   layoutDataUrl |-> NoArtifact, runs |-> <<>>, delivered |-> NoArtifact]

\* A render of LayoutGenerator with a new photos array, and its effect:
\* without photos the canvas is not rendered and generateLayout is not
\* called; with photos generateLayout resets the canvas that is mounted
\* and waits for its images.
renderLayout(l, photos) ==
  IF Len(photos) = 0
  THEN [l EXCEPT !.mounted = TRUE, !.photos = photos, !.canvas = NoCanvas]
  ELSE [l EXCEPT !.mounted = TRUE, !.photos = photos,
                 !.canvas = [mounted |-> TRUE, slots |-> Blank],
                 !.runs = Append(@, [plan |-> photoPromises(photos),
                                     left |-> 1..Len(photoPromises(photos))])]

\* img.onload of image i of run r: the photo is drawn; after the last image
\* of the run Promise.all resolves and the run goes on to setLayoutDataUrl.
imageLoaded(l, r, i) ==
  LET run == l.runs[r]
      d == run.plan[i]
      left == run.left \ {i}
      slots == [l.canvas.slots EXCEPT ![d.row * cols + d.col + 1] = d.photo]
      others == [k \in 1..(Len(l.runs) - 1) |->
                   IF k < r THEN l.runs[k] ELSE l.runs[k + 1]]
  IN  IF left = {}
      THEN [l EXCEPT !.canvas.slots = slots, !.runs = others,
                     !.layoutDataUrl = [made |-> TRUE, via |-> "canvas",
                                        slots |-> slots]]
      ELSE [l EXCEPT !.canvas.slots = slots, !.runs[r].left = left]

\* downloadLayout / printLayout: the buttons are rendered with photos only
\* and disabled without layoutDataUrl
deliver(l, via) == [l EXCEPT !.delivered = [l.layoutDataUrl EXCEPT !.via = via]]

\* ---------------------------------------------------------------- actions
\* The state after the first render of App
Boot ==
  /\ currentVideo = FALSE
  /\ isCountdownActive = FALSE
  /\ autoCapture = TRUE
  /\ activeTab = "capture"
  /\ lastCaptureAge = CooldownMs
  /\ poseStableAge = StableMs + 1
  /\ wasCorrectPose = FALSE
  /\ capturedPhotos = <<>>
  /\ isCapturing = FALSE
  /\ currentPose = "none"
  /\ duration = AppDuration
  /\ count = AppDuration
  /\ timerLeft = None
  /\ microtasks = <<>>
  /\ obs = ObsInit
  /\ now = 1
  /\ layout = NoLayout

\* No function is looked at on its own.
NoCall == [called |-> FALSE]

Init == Boot /\ arg = NoCall /\ result = NoCall

\* CameraView -> App.handleVideoReady
HandleVideoReady ==
  /\ Idle
  /\ activeTab = "capture"
  /\ ~currentVideo
  /\ LET c == [Start EXCEPT !.app.currentVideo = TRUE]
     IN  Commit(Redeliver(Gate, c, currentPose), count)
  /\ UNCHANGED <<activeTab, capturedPhotos, currentPose, duration, microtasks,
                 now, arg, result, layout>>

\* usePoseDetection's interval produces a new pose object; CameraView's
\* effect hands it to handlePoseDetected, which also stores it in App.
PoseSample(n) ==
  /\ Idle
  /\ activeTab = "capture"
  /\ currentVideo
  /\ currentPose' = n
  /\ Commit(Redeliver(Gate, Deliver(Start, PoseOf(n)), n), count)
  /\ UNCHANGED <<activeTab, capturedPhotos, duration, microtasks, now, arg,
                 result, layout>>

\* TimeStep ms pass.
Advance ==
  /\ Idle
  /\ now' = Later
  /\ lastCaptureAge' = Aged(lastCaptureAge, TimeStep, CooldownMs)
  /\ poseStableAge' = Aged(poseStableAge, TimeStep, StableMs + 1)
  /\ timerLeft' = IF timerLeft = None THEN None
                  ELSE IF timerLeft <= TimeStep THEN 0 ELSE timerLeft - TimeStep
  /\ obs' = [obs EXCEPT
               !.triggered = FALSE,
               !.sinceTrigger = Aged(obs.sinceTrigger, TimeStep, CooldownMs),
               !.runAgeAll = Aged(obs.runAgeAll, TimeStep, StableMs + 1),
               !.runAgeEval = Aged(obs.runAgeEval, TimeStep, StableMs + 1)]
  /\ UNCHANGED <<currentVideo, isCountdownActive, autoCapture, activeTab,
                 wasCorrectPose, capturedPhotos, isCapturing, currentPose,
                 duration, count, microtasks, arg, result, layout>>

Ticked(o, done) ==
  [o EXCEPT !.triggered = FALSE,
            !.ticksSeen = IF o.ticksSeen > MaxDuration THEN o.ticksSeen
                          ELSE o.ticksSeen + 1,
            !.completions = IF done THEN Bump(o.completions) ELSE o.completions]

\* CountdownTimer: the interval fires; on the last count the updater calls
\* onComplete, which is App.handleCountdownComplete.
Tick ==
  /\ Idle
  /\ isCountdownActive
  /\ timerLeft = 0
  /\ LET u == tickUpdater(count)
     IN  IF u.onComplete
         THEN /\ \E r \in Settlements :
                   /\ microtasks' =
                        IF currentVideo
                        THEN Append(microtasks,
                                    [path |-> "auto", settled |-> r.settled,
                                     photo |-> r.photo])
                        ELSE microtasks
                   /\ now' = IF currentVideo /\ r.settled = "resolve"
                             THEN r.photo.id ELSE now
              /\ LET c == [app |-> handleCountdownComplete(Gate),
                           obs |-> Ticked(obs, TRUE)]
                 IN  Commit(Redeliver(Gate, c, currentPose), u.count)
         ELSE /\ count' = u.count
              /\ timerLeft' = TickMs
              /\ obs' = Ticked(obs, FALSE)
              /\ UNCHANGED <<currentVideo, isCountdownActive, autoCapture,
                             lastCaptureAge, poseStableAge, wasCorrectPose,
                             isCapturing, microtasks, now>>
  /\ UNCHANGED <<activeTab, capturedPhotos, currentPose, duration, arg, result, layout>>

\* Photos that the countdown path has added since the last trigger
Added(o, t) ==
  [o EXCEPT !.autoPhotos = IF t.settled = "resolve" /\ t.path = "auto"
                           THEN Bump(@) ELSE @]

\* The continuation of the oldest pending await runs.
CaptureResume ==
  /\ microtasks # <<>>
  /\ LET t == Head(microtasks)
         c == [app |-> afterCapture(Gate, t), obs |-> Added(Start.obs, t)]
     IN  /\ capturedPhotos' = IF t.settled = "resolve"
                              THEN addPhoto(capturedPhotos,
                                            [id |-> t.photo.id,
                                             qualityScore |-> t.photo.qualityScore,
                                             auto |-> t.path = "auto"])
                              ELSE capturedPhotos
         /\ Commit(Redeliver(Gate, c, currentPose), count)
  /\ microtasks' = Tail(microtasks)
  /\ UNCHANGED <<activeTab, currentPose, duration, now, arg, result, layout>>

\* Click on "Manual Capture" (disabled={isCapturing || !currentVideo})
HandleManualCapture ==
  /\ Idle
  /\ activeTab = "capture"
  /\ currentVideo /\ ~isCapturing
  /\ \E r \in Settlements :
       /\ microtasks' = Append(microtasks,
                               [path |-> "manual", settled |-> r.settled,
                                photo |-> r.photo])
       /\ now' = IF r.settled = "resolve" THEN r.photo.id ELSE now
  /\ LET c == [Start EXCEPT !.app = handleManualCapture(Gate)]
     IN  Commit(Redeliver(Gate, c, currentPose), count)
  /\ UNCHANGED <<activeTab, capturedPhotos, currentPose, duration, arg, result, layout>>

\* The "Auto-capture on good pose" checkbox
SetAutoCapture ==
  /\ Idle
  /\ activeTab = "capture"
  /\ LET c == [Start EXCEPT !.app.autoCapture = ~autoCapture]
     IN  Commit(Redeliver(Gate, c, currentPose), count)
  /\ UNCHANGED <<activeTab, capturedPhotos, currentPose, duration, microtasks,
                 now, arg, result, layout>>

\* Navigation tabs; CameraView is mounted on the capture tab only and
\* starts with a null pose.
SetActiveTab(t) ==
  /\ Idle
  /\ t # activeTab
  /\ activeTab' = t
  /\ currentPose' = IF t = "capture" \/ activeTab = "capture"
                    THEN "none" ELSE currentPose
  /\ Commit(Start, count)
  /\ UNCHANGED <<capturedPhotos, duration, microtasks, now, arg, result, layout>>

\* The remove button of the i-th photo of PhotoGrid: onRemovePhoto(photo.id)
RemovePhoto(i) ==
  /\ Idle
  /\ activeTab \in {"capture", "photos"}
  /\ i \in 1..Len(capturedPhotos)
  /\ LET left == removePhoto(capturedPhotos, capturedPhotos[i].id)
     IN  /\ capturedPhotos' = Renumber(left)
         /\ now' = Rank(now, Ids(left))
  /\ Commit(Start, count)
  /\ UNCHANGED <<activeTab, currentPose, duration, microtasks, arg, result, layout>>

\* "Clear All"
ClearPhotos ==
  /\ Idle
  /\ activeTab = "photos" \/ (activeTab = "capture" /\ Len(capturedPhotos) > 0)
  /\ capturedPhotos' = clearPhotos(capturedPhotos)
  /\ now' = 1
  /\ Commit(Start, count)
  /\ UNCHANGED <<activeTab, currentPose, duration, microtasks, arg, result, layout>>

\* A parent of CountdownTimer withdraws isActive before the last tick (App
\* itself does so only from handleCountdownComplete).
CancelCountdown ==
  /\ Idle
  /\ isCountdownActive
  /\ LET c == [app |-> [Gate EXCEPT !.isCountdownActive = FALSE],
               obs |-> [obs EXCEPT !.triggered = FALSE, !.cancelled = TRUE]]
     IN  Commit(Redeliver(Gate, c, currentPose), count)
  /\ UNCHANGED <<activeTab, capturedPhotos, currentPose, duration, microtasks,
                 now, arg, result, layout>>

Next ==
  \/ HandleVideoReady
  \/ \E n \in PoseNames : PoseSample(n)
  \/ Advance
  \/ Tick
  \/ CaptureResume
  \/ HandleManualCapture
  \/ SetAutoCapture
  \/ \E t \in {"capture", "photos", "layout"} : SetActiveTab(t)
  \/ \E i \in 1..MaxPhotos : RemovePhoto(i)
  \/ ClearPhotos

Spec == Init /\ [][Next]_vars

\* The auto-capture path alone, with no user at the controls: pose samples,
\* the clock, the interval and the continuations.
NextLive ==
  \/ HandleVideoReady
  \/ \E n \in PoseNames : PoseSample(n)
  \/ Advance
  \/ Tick
  \/ CaptureResume

\* Time passes and pending continuations run; an interval that is due keeps
\* being due until it fires or is cleared, and one that is due again and
\* again fires in the end.
SpecLive ==
  Init /\ [][NextLive]_vars
    /\ WF_vars(Advance) /\ WF_vars(CaptureResume) /\ SF_vars(Tick)

\* CountdownTimer with any duration of 1..MaxDuration, activated by the
\* auto-capture path of App, under a parent that may also withdraw isActive
\* early.
InitTimer ==
  /\ currentVideo = FALSE
  /\ isCountdownActive = FALSE
  /\ autoCapture = TRUE
  /\ activeTab = "capture"
  /\ lastCaptureAge = CooldownMs
  /\ poseStableAge = StableMs + 1
  /\ wasCorrectPose = FALSE
  /\ capturedPhotos = <<>>
  /\ isCapturing = FALSE
  /\ currentPose = "none"
  /\ duration \in 1..MaxDuration
  /\ count = duration
  /\ timerLeft = None
  /\ microtasks = <<>>
  /\ obs = ObsInit
  /\ now = 1
  /\ arg = NoCall
  /\ result = NoCall
  /\ layout = NoLayout

NextTimer ==
  \/ HandleVideoReady
  \/ \E n \in PoseNames : PoseSample(n)
  \/ Advance
  \/ Tick
  \/ CaptureResume
  \/ CancelCountdown

SpecTimer == InitTimer /\ [][NextTimer]_vars

\* ------------------------------------------- functions taken on their own
\* The function is called once, with the argument drawn at the start; v is
\* what it returns.
Call(v) ==
  /\ ~result.called
  /\ result' = [called |-> TRUE, value |-> v]
  /\ UNCHANGED <<arg, program, layout>>

\* Poses with every facial landmark missing, at score 0.5 or above it, the
\* nose on either side of both centering limits, and each shoulder missing
\* or at a height on either side of the level limit.
LandmarkCases == {"missing", "low", "high"}
NoseXs == {CenterLo, CenterLo + 1, CenterHi - 1, CenterHi}
ShoulderYs == {None, 300 - LevelMax, 300, 300 + LevelMax - 1}

PoseFrom(face, noseX, leftY, rightY) ==
  LET parts == {p \in faceKeypoints : face[p] # "missing"}
                 \cup (IF leftY # None THEN {"leftShoulder"} ELSE {})
                 \cup (IF rightY # None THEN {"rightShoulder"} ELSE {})
      score(p) == IF face[p] = "low" THEN ScoreMin ELSE ScoreMin + 1
  IN  [keypoints |-> [p \in parts |->
         CASE p = "nose" -> Kp(score(p), noseX, 200)
           [] p = "leftShoulder" -> Kp(9, 220, leftY)
           [] p = "rightShoulder" -> Kp(9, 420, rightY)
           [] OTHER -> Kp(score(p), 320, 180)]]

PoseInputs ==
  {PoseFrom(face, x, l, r) :
     face \in [faceKeypoints -> LandmarkCases], x \in NoseXs,
     l \in {None, 300}, r \in ShoulderYs}

InitPose ==
  /\ Boot
  /\ arg \in PoseInputs
  /\ result = NoCall

EvaluatePoseQuality == Call(evaluatePoseQuality(arg))

NextPose == EvaluatePoseQuality

SpecPose == InitPose /\ [][NextPose]_vars

\* Pixel buffers of up to MaxPixels pixels in every shape width x height,
\* the shapes without pixels included; each pixel is black, mid-gray,
\* white or pure red.
PixelSamples == {Black, Gray, White, Red}

Frames ==
  {Frame(w, h, px) : w \in 0..MaxPixels, h \in 0..MaxPixels,
                     px \in UNION {[1..k -> PixelSamples] : k \in 0..MaxPixels}}

InitQuality ==
  /\ Boot
  /\ arg \in {f \in Frames : Len(f.pixels) = f.width * f.height}
  /\ result = NoCall

CalculatePhotoQuality == Call(calculatePhotoQuality(arg))

NextQuality == CalculatePhotoQuality

SpecQuality == InitQuality /\ [][NextQuality]_vars

\* LayoutGenerator under a parent that hands it photo lists of up to
\* MaxListLen photos out of MaxListIds, with at most MaxRuns runs of
\* generateLayout unfinished, and that withdraws all photos only while no
\* run is unfinished.
PhotoLists == UNION {[1..k -> 1..MaxListIds] : k \in 0..MaxListLen}

others == <<arg, result, program>>

MountLayout(photos) ==
  /\ ~layout.mounted
  /\ layout' = renderLayout(layout, photos)
  /\ UNCHANGED others

SetPhotos(photos) ==
  /\ layout.mounted
  /\ Len(layout.runs) < MaxRuns
  /\ Len(photos) = 0 => layout.runs = <<>>
  /\ layout' = renderLayout(layout, photos)
  /\ UNCHANGED others

ImageLoad(r, i) ==
  /\ r \in 1..Len(layout.runs)
  /\ i \in layout.runs[r].left
  /\ layout' = imageLoaded(layout, r, i)
  /\ UNCHANGED others

CanDeliver == layout.mounted /\ Len(layout.photos) > 0 /\ layout.layoutDataUrl.made

DownloadLayout ==
  /\ CanDeliver
  /\ layout' = deliver(layout, "download")
  /\ UNCHANGED others

PrintLayout ==
  /\ CanDeliver
  /\ layout' = deliver(layout, "print")
  /\ UNCHANGED others

NextLayout ==
  \/ \E photos \in PhotoLists : MountLayout(photos)
  \/ \E photos \in PhotoLists : SetPhotos(photos)
  \/ \E r \in 1..MaxRuns, i \in 1..MaxListLen : ImageLoad(r, i)
  \/ DownloadLayout
  \/ PrintLayout

SpecLayout == Init /\ [][NextLayout]_vars

\* Photo lists of up to MaxSheet photos for generateLayout, a photo being
\* its dataUrl: all different, all different in reverse, all the same, and
\* two photos in turns.
SheetPatterns == {"up", "down", "same", "turns"}

Sheet(k, pattern) ==
  [i \in 1..k |-> CASE pattern = "up" -> i
                     [] pattern = "down" -> k + 1 - i
                     [] pattern = "same" -> 1
                     [] pattern = "turns" -> 1 + (i % 2)]

InitSheet ==
  /\ Boot
  /\ arg \in {Sheet(k, pt) : k \in 0..MaxSheet, pt \in SheetPatterns}
  /\ result = NoCall

GenerateLayout == Call(generateLayout(arg))

NextSheet == GenerateLayout

SpecSheet == InitSheet /\ [][NextSheet]_vars

\* Scores of stored photos: 0.2, 0.5, 0.9 and 0.5 written as 1/2
ScoreSamples == {Frac(2, 10), Frac(5, 10), Frac(9, 10), Frac(1, 2)}

\* Collections of up to MaxLen photos, ids in insertion order
Collections ==
  UNION {[1..k -> ScoreSamples] : k \in 0..MaxLen}

PhotosOf(scores) ==
  [i \in 1..Len(scores) |-> [id |-> i, qualityScore |-> scores[i]]]

InitBest ==
  /\ Boot
  /\ arg \in {[photos |-> PhotosOf(c), n |-> n] :
                c \in Collections, n \in -1..(MaxLen + 1)}
  /\ result = NoCall

GetBestPhotos == Call(getBestPhotos(arg.photos, arg.n))

NextBest == GetBestPhotos

SpecBest == InitBest /\ [][NextBest]_vars

TypeOK ==
  /\ currentVideo \in BOOLEAN /\ isCountdownActive \in BOOLEAN
  /\ autoCapture \in BOOLEAN /\ isCapturing \in BOOLEAN
  /\ wasCorrectPose \in BOOLEAN
  /\ activeTab \in {"capture", "photos", "layout"}
  /\ lastCaptureAge \in 0..CooldownMs
  /\ poseStableAge \in 0..(StableMs + 1)
  /\ Len(capturedPhotos) <= MaxPhotos
  /\ currentPose \in PoseNames \cup {"none"}
  /\ count \in 1..duration
  /\ timerLeft \in {None} \cup 0..TickMs
  /\ Len(microtasks) <= MaxPhotos
  /\ now \in 1..(MaxPhotos + 1)
  /\ Ids(capturedPhotos) \subseteq 1..now

\* ================================================================ claims

\* C1: any two auto-capture triggers (calls of startCountdown from
\* handlePoseDetected) are at least 5000 ms apart: whenever a step has
\* emitted a trigger, the time since the trigger before it, if there was
\* one, is at least CooldownMs.
C1_TriggersCooldownApart ==
  obs.triggered => (obs.triggerGap = None \/ obs.triggerGap >= CooldownMs)

\* a second trigger has been emitted while no capture has set the cooldown
\* since (the capture of the first trigger's countdown did not succeed, or
\* the cooldown has run out)
C1_Witness ==
  obs.triggered /\ obs.triggerGap # None /\ lastCaptureAge = CooldownMs

\* C2 as stated: at every trigger, the unbroken run of good samples handed
\* to handlePoseDetected, ignored ones included, is more than 2000 ms old.
C2_Original_AllDeliveredSamples ==
  obs.triggered => obs.runAgeAll > StableMs

\* C2 amended: at every trigger, the unbroken run of good samples among the
\* samples the gate evaluated (those that passed both early returns) is more
\* than 2000 ms old; samples the gate ignored neither count nor break the run.
C2_StableOverEvaluatedSamples ==
  obs.triggered => obs.runAgeEval > StableMs

\* a trigger with a sample that was not good, and was ignored, less than
\* 2000 ms before it
C2_Witness ==
  obs.triggered /\ obs.runAgeAll # None /\ obs.runAgeAll <= StableMs
    /\ obs.runAgeEval > StableMs

\* C3 as stated: a trigger is emitted only on a sample that
\* evaluatePoseQuality finds correct.
C3_Original_TriggerOnlyOnEvaluatorCorrect ==
  obs.triggered =>
    (currentPose # "none" /\ evaluatePoseQuality(PoseOf(currentPose)).isCorrect)

\* C3 amended: a trigger is emitted only on a sample that passes App's own
\* test (at least 4 of the 5 facial landmarks with score > 0.5); the gate is
\* in Stabilizing only while the last sample it evaluated passed that test,
\* so an evaluated sample that fails it puts the gate back to Idle.
C3_TriggerOnlyOnGoodPose ==
  /\ obs.triggered => (currentPose # "none" /\ isGoodPose(PoseOf(currentPose)))
  /\ wasCorrectPose => obs.runAgeEval # None

\* a trigger on a pose that evaluatePoseQuality rejects (shoulders not level)
C3_Witness ==
  /\ obs.triggered
  /\ currentPose = "tilted"
  /\ ~evaluatePoseQuality(PoseOf(currentPose)).isCorrect

\* C4: at most one capture is in progress at any time, and isCapturing is
\* true whenever one is in progress.
C4_OneCaptureFlagHeld ==
  /\ Len(microtasks) <= 1
  /\ microtasks # <<>> => isCapturing

\* a manual capture is in progress while the countdown is on its last count
C4_Witness ==
  /\ microtasks # <<>>
  /\ Head(microtasks).path = "manual"
  /\ isCountdownActive /\ count = 1

\* C5: the step that ends a capture leaves isCapturing false; when the
\* capture failed it leaves the photo collection and lastCaptureTime as they
\* were (no cooldown starts), on the manual and on the countdown path.
C5_FailureReleasesFlagOnly ==
  [][(microtasks # <<>> /\ microtasks' = Tail(microtasks)) =>
       /\ ~isCapturing'
       /\ Head(microtasks).settled = "reject" =>
            (capturedPhotos' = capturedPhotos /\ lastCaptureAge' = lastCaptureAge)]_vars

\* a capture of the countdown path has failed and its continuation is about
\* to run, with a photo in the collection and no cooldown running
C5_Witness ==
  /\ microtasks # <<>>
  /\ Head(microtasks).settled = "reject" /\ Head(microtasks).path = "auto"
  /\ capturedPhotos # <<>>
  /\ lastCaptureAge = CooldownMs

\* C6: a trigger is never emitted by a call of handlePoseDetected that found
\* a countdown active or a capture in progress, and right after a step that
\* started a countdown no capture is in progress.
C6_NoCountdownStartWhileBusy ==
  /\ ~obs.startedBusy
  /\ obs.triggered => (~isCapturing /\ microtasks = <<>>)

\* a countdown has just been started, after an earlier capture
C6_Witness ==
  obs.triggered /\ isCountdownActive /\ capturedPhotos # <<>>

\* C7: in one activation onComplete is called at most once, and it has been
\* called exactly when duration ticks have been seen; the counter is then
\* back at duration (and the countdown inactive).
C7_CompleteOnLastTick ==
  /\ obs.completions <= 1
  /\ obs.ticksSeen <= duration
  /\ (obs.completions = 1) <=> (obs.ticksSeen = duration)
  /\ obs.completions = 1 => (count = duration /\ ~isCountdownActive)

\* a countdown of duration 2 has completed
C7_Witness ==
  obs.completions = 1 /\ duration = 2 /\ obs.ticksSeen = 2

\* C8: after isActive was withdrawn before the last tick, onComplete has not
\* been called for that activation, no interval is left, and the counter is
\* back at duration; an activation starts counting from duration.
C8_DeactivationCancels ==
  /\ obs.cancelled =>
       (obs.completions = 0 /\ timerLeft = None /\ count = duration
          /\ ~isCountdownActive)
  /\ (isCountdownActive /\ obs.ticksSeen = 0) => count = duration

\* isActive was withdrawn after at least one tick
C8_Witness ==
  obs.cancelled /\ obs.ticksSeen >= 1 /\ duration = MaxDuration

\* C9: once a countdown is active it eventually ends (handleCountdownComplete
\* sets isCountdownActive to false), whatever pose samples arrive meanwhile.
C9_CountdownEnds ==
  isCountdownActive ~> ~isCountdownActive

\* C10 as stated: within one unbroken run of good samples the gate emits at
\* most one trigger.
C10_Original_OneTriggerPerHold ==
  obs.holdTriggersAll <= 1

\* C10 amended: within one hold (no evaluated sample that is not good) the
\* gate emits at most one trigger per stability window: every trigger is
\* preceded by its own setting of poseStableTime.
C10_OneTriggerPerWindow ==
  /\ obs.holdTriggers <= obs.holdWindows
  /\ obs.triggered => ~wasCorrectPose

\* a second trigger within one hold
C10_Witness ==
  obs.triggered /\ obs.holdTriggersAll = 2 /\ obs.holdTriggers = 2

\* C11: a pose sample that arrives while auto-capture is off, a capture is
\* in progress, a countdown is active or the last capture is less than
\* CooldownMs old emits no trigger and leaves wasCorrectPose, poseStableTime
\* and lastCaptureTime as they were (an ongoing stability window goes on).
C11_IgnoredSampleLeavesGate ==
  [][\A n \in PoseNames :
       (PoseSample(n) /\ (~autoCapture \/ isCapturing \/ isCountdownActive
                            \/ lastCaptureAge < CooldownMs))
         => /\ ~obs'.triggered
            /\ ~isCountdownActive' \/ isCountdownActive
            /\ UNCHANGED <<wasCorrectPose, poseStableAge, lastCaptureAge>>]_vars

\* a sample without enough landmarks was the last one delivered, and the
\* stability window it met is still open: the sample was ignored
C11_Witness ==
  /\ currentVideo /\ activeTab = "capture"
  /\ currentPose = "hidden"
  /\ wasCorrectPose /\ poseStableAge <= StableMs
  /\ ~autoCapture \/ isCapturing \/ isCountdownActive
       \/ lastCaptureAge < CooldownMs

\* C12: the ids of the photos in the collection are pairwise distinct and
\* increase strictly in capture order (which is the order of the
\* collection), also for two captures that read the same millisecond.
C12_IdsStrictlyIncreasing ==
  \A i, j \in 1..Len(capturedPhotos) :
    i < j => capturedPhotos[i].id < capturedPhotos[j].id

\* C13: for a collection and n >= 0, getBestPhotos(n) returns min(n, size)
\* photos, each one a photo of the collection and none twice, in the order
\* of descending qualityScore with equal scores in insertion order; no
\* photo left out has a higher score than a photo returned.
C13_BestPhotos ==
  (result.called /\ arg.n >= 0) =>
    LET in == arg.photos
        out == result.value
        Score(p) == p.qualityScore
    IN  /\ Len(out) = Min(arg.n, Len(in))
        /\ \A k \in 1..Len(out) :
             out[k].id \in 1..Len(in) /\ out[k] = in[out[k].id]
        /\ \A k, l \in 1..Len(out) :
             k < l => /\ out[k].id # out[l].id
                      /\ FracLeq(Score(out[l]), Score(out[k]))
                      /\ FracEq(Score(out[l]), Score(out[k]))
                           => out[k].id < out[l].id
        /\ \A i \in 1..Len(in) :
             (\A k \in 1..Len(out) : out[k].id # i)
               => \A k \in 1..Len(out) : FracLeq(Score(in[i]), Score(out[k]))

\* scores 0.2, 0.9, 0.5 with n = 2 have yielded 0.9, then 0.5
C13_Witness ==
  /\ result.called
  /\ arg.n = 2
  /\ Len(arg.photos) = 3
  /\ arg.photos[1].qualityScore = Frac(2, 10)
  /\ arg.photos[2].qualityScore = Frac(9, 10)
  /\ arg.photos[3].qualityScore = Frac(5, 10)
  /\ result.value = <<arg.photos[2], arg.photos[3]>>

\* C14: addPhoto appends at the end, removePhoto(id) deletes exactly the
\* one entry with that id and keeps the others in order, removePhoto of an
\* id that is absent changes nothing, and clearPhotos leaves the collection
\* empty.
C14_CollectionOperations ==
  [][LET Body(p) == [qualityScore |-> p.qualityScore, auto |-> p.auto]
         old == capturedPhotos
         new == capturedPhotos'
     IN  /\ (CaptureResume /\ Head(microtasks).settled = "resolve")
              => /\ Len(new) = Len(old) + 1
                 /\ SubSeq(new, 1, Len(old)) = old
                 /\ new[Len(new)].id = Head(microtasks).photo.id
         /\ \A i \in 1..Len(old) :
              RemovePhoto(i)
                => /\ Len(new) = Len(old) - 1
                   /\ \A j \in 1..Len(new) :
                        Body(new[j]) = Body(old[IF j < i THEN j ELSE j + 1])
         /\ removePhoto(old, now + 1) = old
         /\ ClearPhotos => new = <<>>]_vars

\* C15: for a pose with fewer than 3 facial landmarks of score > 0.5,
\* evaluatePoseQuality returns isCorrect = false, confidence = 0 and the
\* message "Position yourself in the frame"; every pose, with or without
\* missing landmarks, gets a verdict.
C15_TooFewLandmarks ==
  result.called =>
    LET seen == {p \in faceKeypoints :
                   p \in DOMAIN arg.keypoints /\ arg.keypoints[p].score > ScoreMin}
        v == result.value
    IN  /\ v.isCorrect \in BOOLEAN
        /\ v.confNum \in 0..5 /\ v.confDen = 5
        /\ v.message \in {"Position yourself in the frame",
                          "Keep your shoulders level",
                          "Center yourself in the frame",
                          "Almost there, stay still",
                          "Perfect pose! Stay still..."}
        /\ Cardinality(seen) < 3
             => /\ ~v.isCorrect
                /\ v.confNum = 0
                /\ v.message = "Position yourself in the frame"

\* a pose with two landmarks above 0.5, a third one at 0.5 and a shoulder
\* missing has got its verdict
C15_Witness ==
  /\ result.called
  /\ "rightShoulder" \notin DOMAIN arg.keypoints
  /\ "nose" \in DOMAIN arg.keypoints /\ arg.keypoints["nose"].score = ScoreMin
  /\ Cardinality({p \in faceKeypoints :
                    p \in DOMAIN arg.keypoints
                      /\ arg.keypoints[p].score > ScoreMin}) = 2
  /\ result.value.message = "Position yourself in the frame"

\* C16 as stated: isCorrect is true exactly when nose and both shoulders
\* are present, the shoulders differ by less than 50 in height, the nose
\* lies strictly between 200 and 440 and at least 4 facial landmarks are
\* visible; with at least 3 visible landmarks and no correct pose the
\* message is "Keep your shoulders level" if they are not level, else
\* "Center yourself in the frame" if the nose is off centre, else "Almost
\* there, stay still" (one of the three in any case).
C16_Original_MessageByPriority ==
  result.called =>
    LET kp == arg.keypoints
        seen == Cardinality({p \in faceKeypoints :
                               p \in DOMAIN kp /\ kp[p].score > ScoreMin})
        body == {"nose", "leftShoulder", "rightShoulder"} \subseteq DOMAIN kp
        level == Abs(kp["leftShoulder"].position.y
                     - kp["rightShoulder"].position.y) < 50
        centered == kp["nose"].position.x > 200 /\ kp["nose"].position.x < 440
        v == result.value
    IN  /\ v.isCorrect <=> (body /\ level /\ centered /\ seen >= 4)
        /\ (seen >= 3 /\ ~v.isCorrect)
             => /\ v.message \in {"Keep your shoulders level",
                                  "Center yourself in the frame",
                                  "Almost there, stay still"}
                /\ body => v.message =
                             IF ~level THEN "Keep your shoulders level"
                             ELSE IF ~centered THEN "Center yourself in the frame"
                             ELSE "Almost there, stay still"

\* C16, amended: isCorrect as above; with at least 3 visible landmarks and
\* no correct pose the message follows the priority (shoulders, centre,
\* "Almost there, stay still") when nose and both shoulders are present,
\* and stays "Position yourself in the frame" when one of them is missing.
C16_MessageByPriority ==
  result.called =>
    LET kp == arg.keypoints
        seen == Cardinality({p \in faceKeypoints :
                               p \in DOMAIN kp /\ kp[p].score > ScoreMin})
        body == {"nose", "leftShoulder", "rightShoulder"} \subseteq DOMAIN kp
        level == Abs(kp["leftShoulder"].position.y
                     - kp["rightShoulder"].position.y) < 50
        centered == kp["nose"].position.x > 200 /\ kp["nose"].position.x < 440
        v == result.value
    IN  /\ v.isCorrect <=> (body /\ level /\ centered /\ seen >= 4)
        /\ (seen >= 3 /\ ~v.isCorrect)
             => v.message =
                  IF ~body THEN "Position yourself in the frame"
                  ELSE IF ~level THEN "Keep your shoulders level"
                  ELSE IF ~centered THEN "Center yourself in the frame"
                  ELSE "Almost there, stay still"

\* a pose with 4 visible landmarks, shoulders not level and the nose off
\* centre has been told about the shoulders
C16_Witness ==
  /\ result.called
  /\ {"nose", "leftShoulder", "rightShoulder"} \subseteq DOMAIN arg.keypoints
  /\ Cardinality(visibleFacePoints(arg)) = 4
  /\ arg.keypoints["nose"].position.x = CenterHi
  /\ arg.keypoints["rightShoulder"].position.y = 300 - LevelMax
  /\ result.value.message = "Keep your shoulders level"

\* C17: for a pixel buffer of at least one pixel with 8-bit components,
\* brightnessScore, sharpnessScore and qualityScore lie within [0, 1].
C17_ScoresInUnitInterval ==
  (result.called /\ ~result.value.threw) =>
    LET InUnit(q) == q.den > 0 /\ 0 <= q.num /\ q.num <= q.den
    IN  /\ InUnit(result.value.brightnessScore)
        /\ InUnit(result.value.sharpnessScore)
        /\ InUnit(result.value.qualityScore)

\* a buffer with the strongest edge there is (black next to white) has
\* been scored: its sharpness is at the cap
C17_Witness ==
  /\ result.called /\ ~result.value.threw
  /\ arg.pixels = <<Black, White>>
  /\ FracEq(result.value.sharpnessScore, Frac(1, 1))

\* C18: a frame of any size >= 1 whose pixels are all (128,128,128) gets
\* brightnessScore 1, sharpnessScore 0 and qualityScore 0.5; an all-black
\* frame gets brightnessScore 0.
C18_GrayAndBlackFrames ==
  (result.called /\ ~result.value.threw) =>
    LET All(px) == \A i \in 1..Len(arg.pixels) : arg.pixels[i] = px
        v == result.value
    IN  /\ All(<<128, 128, 128>>)
             => /\ FracEq(v.brightnessScore, Frac(1, 1))
                /\ FracEq(v.sharpnessScore, Frac(0, 1))
                /\ FracEq(v.qualityScore, Frac(1, 2))
        /\ All(<<0, 0, 0>>) => FracEq(v.brightnessScore, Frac(0, 1))

\* a gray frame of MaxPixels pixels has been scored 0.5
C18_Witness ==
  /\ result.called /\ ~result.value.threw
  /\ Len(arg.pixels) = MaxPixels
  /\ \A i \in 1..Len(arg.pixels) : arg.pixels[i] = Gray
  /\ FracEq(result.value.qualityScore, Frac(1, 2))

\* C19 as stated: brightnessScore is 0 for an all-white frame as for an
\* all-black one, and it is 1 only at average brightness 128.
C19_Original_WhiteScoresZero ==
  (result.called /\ ~result.value.threw) =>
    LET All(px) == \A i \in 1..Len(arg.pixels) : arg.pixels[i] = px
        b == result.value.brightnessScore
    IN  /\ All(<<255, 255, 255>>) => FracEq(b, Frac(0, 1))
        /\ All(<<0, 0, 0>>) => FracEq(b, Frac(0, 1))
        /\ FracEq(b, Frac(1, 1))
             => totalBrightness(arg.pixels) = 3 * 128 * Len(arg.pixels)

\* C19, amended: brightnessScore is 0 for an all-black frame and 1/128 for
\* an all-white one, and it is 1 only at average brightness 128.
C19_WhiteScoresOneIn128 ==
  (result.called /\ ~result.value.threw) =>
    LET All(px) == \A i \in 1..Len(arg.pixels) : arg.pixels[i] = px
        b == result.value.brightnessScore
    IN  /\ All(<<255, 255, 255>>) => FracEq(b, Frac(1, 128))
        /\ All(<<0, 0, 0>>) => FracEq(b, Frac(0, 1))
        /\ FracEq(b, Frac(1, 1))
             => totalBrightness(arg.pixels) = 3 * 128 * Len(arg.pixels)

\* an all-white frame of two pixels has been scored
C19_Witness ==
  /\ result.called /\ ~result.value.threw
  /\ arg.pixels = <<White, White>>
  /\ result.value.brightnessScore.num > 0

\* C20: a capture that meets a pixel buffer without pixels (a canvas of
\* width or height 0) ends in an error, and no photo whose qualityScore is
\* NaN is stored or on its way into the collection.
C20_NoNaNScoreStored ==
  /\ \A f \in LiveFrames :
       (f.width = 0 \/ f.height = 0) => capturePhoto(f, now).settled = "reject"
  /\ \A i \in 1..Len(capturedPhotos) : ~IsNaN(capturedPhotos[i].qualityScore)
  /\ \A i \in 1..Len(microtasks) :
       microtasks[i].settled = "resolve" => ~IsNaN(microtasks[i].photo.qualityScore)

\* a capture has just failed with a photo already in the collection
C20_Witness ==
  /\ microtasks # <<>>
  /\ Head(microtasks).settled = "reject"
  /\ capturedPhotos # <<>>

\* C21: generateLayout draws the first min(|photos|, capacity) photos of
\* its input in input order, photo i (from 0) in row floor(i / cols) and
\* column i mod cols, with cols = floor(2480 / (413 + 60)), rows =
\* floor(3508 / (531 + 60)) and capacity = cols * rows; no photo beyond
\* capacity is drawn, no slot is drawn twice (the others stay blank), and
\* with at least one photo the artifact is produced.
C21_FirstPhotosRowByRow ==
  result.called =>
    LET c == 2480 \div (413 + 60)
        r == 3508 \div (531 + 60)
        out == result.value.drawn
    IN  /\ Len(out) = Min(Len(arg), c * r)
        /\ \A i \in 1..Len(out) :
             /\ out[i].photo = arg[i]
             /\ out[i].row = (i - 1) \div c /\ out[i].row < r
             /\ out[i].col = (i - 1) % c
        /\ \A i, j \in 1..Len(out) :
             i # j => out[i].row # out[j].row \/ out[i].col # out[j].col
        /\ Len(arg) > 0 => result.value.artifact

\* a list with two photos more than the page holds has been laid out
C21_Witness ==
  /\ result.called
  /\ Len(arg) = totalSlots + 2
  /\ Len(result.value.drawn) = totalSlots
  /\ result.value.artifact

\* C22: with zero photos there is no canvas, no run and nothing to deliver
\* (the nothing-to-render state); whenever download or print can deliver,
\* the artifact is the rendering of the current photo list: photo i of the
\* list in slot i and every other slot blank.
C22_ArtifactOfCurrentPhotos ==
  /\ (layout.mounted /\ Len(layout.photos) = 0)
       => ~layout.canvas.mounted /\ layout.runs = <<>> /\ ~CanDeliver
  /\ CanDeliver
       => \A s \in 1..totalSlots :
            layout.layoutDataUrl.slots[s] =
              IF s <= Len(layout.photos) THEN layout.photos[s] ELSE 0

\* C23: once every run of generateLayout has finished, the published
\* artifact shows exactly the photos of the latest photo list, each in its
\* own slot, and nothing an earlier run drew.
C23_LatestRunWins ==
  (layout.mounted /\ Len(layout.photos) > 0 /\ layout.runs = <<>>)
    => /\ layout.layoutDataUrl.made
       /\ \A s \in 1..totalSlots :
            layout.layoutDataUrl.slots[s] =
              IF s <= Len(layout.photos) THEN layout.photos[s] ELSE 0

\* C24: for page 2480 x 3508, slot 413 x 531 and margin 60 every slot lies
\* inside the page, no two slots overlap, the block of slots is centered
\* (left gap = right gap, top gap = bottom gap), and guide i lies at
\* startX + i * (slotWidth + margin) - margin / 2, midway between the
\* facing edges of slots i - 1 and i and strictly between them.  All
\* lengths below are in half pixels.
C24_SlotsAndGuides ==
  (result.called /\ result.value.artifact) =>
    LET w2 == 2 * 413
        h2 == 2 * 531
        out == result.value.drawn
        gx == result.value.guidesX2
        gy == result.value.guidesY2
    IN  /\ \A i \in 1..Len(out) :
             /\ 0 <= out[i].x2 /\ out[i].x2 + w2 <= 2 * 2480
             /\ 0 <= out[i].y2 /\ out[i].y2 + h2 <= 2 * 3508
             /\ out[i].x2 = slotX2(out[i].col) /\ out[i].y2 = slotY2(out[i].row)
        /\ \A i, j \in 1..Len(out) :
             i # j => \/ out[i].x2 + w2 <= out[j].x2 \/ out[j].x2 + w2 <= out[i].x2
                      \/ out[i].y2 + h2 <= out[j].y2 \/ out[j].y2 + h2 <= out[i].y2
        /\ slotX2(0) = 2 * 2480 - (slotX2(cols - 1) + w2)
        /\ slotY2(0) = 2 * 3508 - (slotY2(rows - 1) + h2)
        /\ Len(gx) = cols - 1 /\ Len(gy) = rows - 1
        /\ \A i \in 1..Len(gx) :
             /\ gx[i] = slotX2(0) + 2 * i * (413 + 60) - 60
             /\ gx[i] - (slotX2(i - 1) + w2) = slotX2(i) - gx[i]
             /\ slotX2(i - 1) + w2 < gx[i] /\ gx[i] < slotX2(i)
        /\ \A i \in 1..Len(gy) :
             /\ gy[i] = slotY2(0) + 2 * i * (531 + 60) - 60
             /\ gy[i] - (slotY2(i - 1) + h2) = slotY2(i) - gy[i]
             /\ slotY2(i - 1) + h2 < gy[i] /\ gy[i] < slotY2(i)

\* a full page has been laid out: 25 slots from (87.5, 306.5) on and 4
\* guides each way
C24_Witness ==
  /\ result.called /\ result.value.artifact
  /\ Len(result.value.drawn) = 25
  /\ result.value.drawn[1].x2 = 175 /\ result.value.drawn[1].y2 = 613
  /\ Len(result.value.guidesX2) = 4 /\ Len(result.value.guidesY2) = 4

\* C25: a sample that is not ignored moves the gate as follows.  A good
\* sample in Idle (wasCorrectPose false) sets poseStableTime to now and
\* emits no trigger; a good sample in Stabilizing emits a trigger and goes
\* back to Idle if now - poseStableTime > 2000, and changes nothing
\* otherwise (also at exactly 2000); a bad sample leaves the gate in Idle
\* without a trigger; no trigger is emitted from Idle.
C25_GateTransitions ==
  [][\A n \in PoseNames :
       (PoseSample(n) /\ autoCapture /\ ~isCapturing /\ ~isCountdownActive
          /\ lastCaptureAge >= 5000)
         => LET good == isGoodPose(PoseOf(n))
            IN  /\ (good /\ ~wasCorrectPose)
                     => /\ wasCorrectPose' /\ poseStableAge' = 0
                        /\ ~obs'.triggered /\ ~isCountdownActive'
                /\ (good /\ wasCorrectPose /\ poseStableAge > 2000)
                     => /\ obs'.triggered /\ isCountdownActive'
                        /\ ~wasCorrectPose'
                /\ (good /\ wasCorrectPose /\ poseStableAge <= 2000)
                     => /\ ~obs'.triggered /\ ~isCountdownActive'
                        /\ UNCHANGED <<wasCorrectPose, poseStableAge>>
                /\ ~good => ~wasCorrectPose' /\ ~obs'.triggered
                                /\ ~isCountdownActive'
                /\ obs'.triggered => wasCorrectPose
                /\ UNCHANGED lastCaptureAge]_vars

\* a good sample has just opened a second stability window
C25_Witness ==
  /\ wasCorrectPose /\ poseStableAge = 0
  /\ currentPose = "perfect"
  /\ obs.holdWindows = 2
  /\ autoCapture /\ ~isCapturing /\ ~isCountdownActive
  /\ lastCaptureAge = CooldownMs

\* C26: a photo is added by the countdown path only after a trigger and
\* after the completion of the countdown that this trigger started, which
\* has completed once; it is the first photo since that trigger, and
\* lastCaptureTime is set (to now) in that step and in no other step, so
\* it never moves back.  A countdown completes only after a trigger.
C26_TriggerCountdownPhoto ==
  [][LET autoAdd == /\ CaptureResume
                    /\ Head(microtasks).path = "auto"
                    /\ Head(microtasks).settled = "resolve"
     IN  /\ autoAdd => /\ obs.sinceTrigger # None
                       /\ obs.completions = 1
                       /\ obs.autoPhotos = 0 /\ obs'.autoPhotos = 1
                       /\ capturedPhotos' # capturedPhotos
                       /\ lastCaptureAge' = 0
         /\ obs'.completions > obs.completions
              => obs.sinceTrigger # None /\ obs.completions = 0
         /\ (\E i \in 1..Len(capturedPhotos') :
               capturedPhotos'[i].auto /\ i > Len(capturedPhotos)) => autoAdd
         /\ lastCaptureAge' < lastCaptureAge => autoAdd]_vars

\* the countdown path has added a photo and the cooldown is running
C26_Witness ==
  /\ obs.autoPhotos = 1 /\ obs.completions = 1
  /\ Len(capturedPhotos) = MaxPhotos
  /\ capturedPhotos[MaxPhotos].auto /\ capturedPhotos[1].auto
  /\ lastCaptureAge = TimeStep

\* C27: a pose sample is handed to handlePoseDetected once, in the step in
\* which the pose source produced it; a step of any other kind (a change
\* of autoCapture, currentVideo, isCapturing or isCountdownActive among
\* them) evaluates no sample: it emits no trigger and neither opens nor
\* closes a stability window.
C27_SampleDeliveredOnce ==
  [][(~\E n \in PoseNames : PoseSample(n))
       => /\ ~obs'.triggered
          /\ wasCorrectPose' = wasCorrectPose
          /\ poseStableAge' = poseStableAge \/ Advance]_vars

\* C28: a manual capture, from the click to the end of its continuation,
\* successful or not, leaves lastCaptureTime, poseStableTime, wasCorrectPose
\* and isCountdownActive as they were.
C28_ManualCaptureLeavesGate ==
  [][(HandleManualCapture
        \/ (CaptureResume /\ Head(microtasks).path = "manual"))
       => UNCHANGED <<lastCaptureAge, poseStableAge, wasCorrectPose,
                      isCountdownActive>>]_vars

\* C29: a pose that evaluatePoseQuality finds correct passes the gate's
\* own test (at least 4 of the 5 facial landmarks with score > 0.5).
C29_CorrectImpliesGood ==
  (result.called /\ result.value.isCorrect) => isGoodPose(arg)

\* the converse fails: a pose with unlevel shoulders has been rejected by
\* evaluatePoseQuality and passes the gate's test
C29_Witness ==
  /\ result.called
  /\ ~result.value.isCorrect
  /\ result.value.message = "Keep your shoulders level"
  /\ isGoodPose(arg)

====
